---- MODULE Spec2Model ----
(***************************************************************************)
(* State-machine model of the benchmark engine of src/entrypoint.go:       *)
(* main, loadDataChunk and the six backend procedures benchmarkPostgres,   *)
(* benchmarkTimescaleDb, benchmarkQuestDb, benchmarkInfluxDB,              *)
(* benchmarkCrateDB and benchmarkClickHouse.                               *)
(*                                                                         *)
(* One run of the binary is one pass main -> connect -> schema -> (load,   *)
(* ingest)* -> query 1..20 -> create -> encode -> return -> exit.  The     *)
(* backend, the dataset directory and the output path are the environment: *)
(* their answers are drawn nondeterministically where the code receives    *)
(* them.  Time is a logical clock that advances by Tick on every file read *)
(* and every backend round trip; instants are milliseconds.                *)
(*                                                                         *)
(* Spec is the run of the binary.  MiddleSpec is the derivation of the     *)
(* middle timestamp alone, over a range of minima and spans.  log and hist *)
(* are history variables: the external calls made, and the instants taken  *)
(* and values read by the run.                                             *)
(***************************************************************************)
EXTENDS Integers, Sequences, FiniteSets, TLC

(* ---------------------------- bounds ----------------------------------- *)
MaxChunks == 2
MaxChunkLen == 3
MaxStray == 1
MaxFaults == 1
MaxPool == 8
Tick == 1
SpanSec == 7200
MaxSpan == 20

(* ----------------------- program constants ----------------------------- *)
NQueries == 20
Sentinel == 0 - 1
MsPerSec == 1000
Hour == 3600 * MsPerSec
T0 == 10 * MsPerSec
ZeroTime == 0

DbTypes == {"postgres", "timescaledb", "questdb", "cratedb", "clickhouse", "influxdb"}
TypeFlags == DbTypes \cup {"", "mysql"}
ConnFlags == {"", "host", "ingest:::query"}
OutFlags == {"", "out.json"}
ChunkLens == {0, MaxChunkLen - 1, MaxChunkLen}
\* Capacity of the connection pool the procedure queries through.  pgxpool sizes
\* its pool max(4, NumCPU) unless the connection string says otherwise; the size is
\* decided outside the procedure, so it is drawn from this set at connection time.
PoolSizes == {MaxPool \div 2, MaxPool}

VARIABLES
    connStr, outputFile, dbType,   \* the -conn, -o and -type flags
    pc,                            \* position of the run
    err,                           \* error returned by the backend procedure
    exit,                          \* how the process ended
    currentChunk, hasNext, data,   \* ingestion loop locals (data = len(data.Response))
    nRecords, results,             \* cumulative count and the BenchmarkResults value
    qid,                           \* identifier of the next query block
    minTime, maxTime, middleTime,  \* time bounds of query 1 and the derived middle
    now, start,                    \* logical clock and the last time.Now() taken
    open,                          \* handles the procedure has opened and not closed
    poolSize, acquired,            \* connection pool capacity and connections in use
    tables,                        \* user_events schema objects in the backend
    firstIndex, nFiles, stray,     \* dataset directory: chunk files and other entries
    outFile,                       \* content of the file at the output path
    faults,                        \* environment faults injected in this run
    log,                           \* history of the external calls of this run
    hist                           \* history of the instants taken and the values read

vars == <<connStr, outputFile, dbType, pc, err, exit, currentChunk, hasNext, data,
          nRecords, results, qid, minTime, maxTime, middleTime, now, start, open,
          poolSize, acquired, tables, firstIndex, nFiles, stray, outFile, faults, log,
          hist>>

(* ------------------------- pure helpers -------------------------------- *)

\* Go's integer division truncates toward zero (time.Duration / 2).
Quot(a, b) == IF a >= 0 THEN a \div b ELSE 0 - ((0 - a) \div b)

\* time.Duration is a signed 64-bit count and Time.Sub saturates at its two ends;
\* the model keeps the saturation with the range scaled to 31 bits
MaxDuration == 2^30 - 1

MinDuration == 0 - 2^30

\* t.Sub(u): the difference, or the nearest end of the Duration range
Sub(t, u) ==
    IF t - u > MaxDuration THEN MaxDuration
    ELSE IF t - u < MinDuration THEN MinDuration
    ELSE t - u

\* faulty variant of Middle: the half is rounded up instead of truncated
MiddleRoundedUp(lo, hi) == lo + Quot(Sub(hi, lo) + 1, 2)

\* middleTime = minTime.Add(maxTime.Sub(minTime) / 2)
Middle(lo, hi) == lo + Quot(Sub(hi, lo), 2)

\* faulty variant of AssignsMiddle: the middle is computed again before query 15
AssignsMiddleAgain(q) == q \in {1, 14}

\* the query block that is followed by the assignment of middleTime
AssignsMiddle(q) == q = 1

\* t.Format(time.RFC3339) as the backend reads it back: the layout has no
\* fractional seconds
Rfc3339(t) == (t \div MsPerSec) * MsPerSec

\* the instant the backend receives for a time bound t: the SQL procedures pass the
\* time.Time value as a parameter, the InfluxDB procedure prints it into the query text
Sent(db, t) == IF db = "influxdb" THEN Rfc3339(t) ELSE t

\* identifiers whose statement takes minTime, middleTime or maxTime as a bound
Dependent == {5, 6, 7, 8, 15, 16}

\* faulty variant of Window: query 7 looks one hour back only
WindowHourBack(q, lo, mid, hi) ==
    CASE q = 7 -> <<mid - Hour, mid>>
      [] q = 8 -> <<mid, mid + 24 * Hour>>
      [] q = 15 -> <<lo, mid>>
      [] q = 16 -> <<mid, hi>>
      [] OTHER -> <<mid, mid>>

\* the two time bounds of a dependent query: hourBefore/hourAfter (7), middleTime and
\* dayAfter (8), minTime..middleTime (15), middleTime..maxTime (16), middleTime (5, 6)
Window(q, lo, mid, hi) ==
    CASE q = 7 -> <<mid - Hour, mid + Hour>>
      [] q = 8 -> <<mid, mid + 24 * Hour>>
      [] q = 15 -> <<lo, mid>>
      [] q = 16 -> <<mid, hi>>
      [] OTHER -> <<mid, mid>>

\* faulty variant of TimerStart: start := time.Now() is placed above loadDataChunk
TimerStartBeforeRead(readBegan, readReturned) == readBegan

\* the instant start := time.Now() takes in the ingestion loop
TimerStart(readBegan, readReturned) == readReturned

\* time.Unix(sec, 0) as an instant in milliseconds
Unix(sec) == sec * MsPerSec

\* len(strings.Split(connStr, ":::"))
ConnParts(s) == IF s = "ingest:::query" THEN 2 ELSE 1

\* faulty variant of HasMore: the directory count compared against the index itself
HasMoreOffByOne(chunk, entries) == chunk < entries

\* loadDataChunk: currentChunk+1 < len(filesInDirectory)
HasMore(chunk, entries) == chunk + 1 < entries

\* faulty variant of Entries: only the chunk files are counted
EntriesChunkFilesOnly(files, others) == files

\* len(filesInDirectory): os.ReadDir returns every entry of the directory
Entries(files, others) == files + others

\* faulty variant of NextChunk: the index is advanced twice per iteration
NextChunkSkipping(chunk) == chunk + 2

\* currentChunk++
NextChunk(chunk) == chunk + 1

\* faulty variant of ChunkFileExists: a missing file reads as an empty chunk
ChunkFileAlwaysExists(chunk) == TRUE

\* os.Open of readings_<chunk>.json succeeds only if that file is in the directory
ChunkFileExists(chunk) == firstIndex <= chunk /\ chunk < firstIndex + nFiles

\* faulty variant of Cumulative: the sample carries the per-chunk count
PerChunkCount(total, len) == len

\* nRecords += len(data.Response)
Cumulative(total, len) == total + len

\* faulty variant of Unsupported: the PostgreSQL block of query 8 is left out of the sentinel set
UnsupportedWithout8(db) == IF db = "postgres" THEN {14, 17, 18, 19, 20} ELSE {}

\* identifiers whose block appends DurationMs: -1 without calling the backend
Unsupported(db) == IF db = "postgres" THEN {8, 14, 17, 18, 19, 20} ELSE {}

\* identifiers issued with Query(...) whose returned rows are neither read nor closed
UnreadRows(db) ==
    IF db = "influxdb" THEN {}
    ELSE {8, 9, 12, 13, 17, 18, 19, 20} \ Unsupported(db)

\* backends whose schema statement is CREATE TABLE IF NOT EXISTS
IfNotExists(db) == db \in {"cratedb", "clickhouse"}

\* backends whose procedure runs a schema statement at all
HasSchemaStep(db) == db \in {"postgres", "timescaledb", "cratedb", "clickhouse"}

\* backends that query through a bounded connection pool
Pooled(db) == db # "influxdb"

\* an ingestion write failure reaches the procedure as an error value
\* (WritePoint and Flush of the InfluxDB write API return nothing)
IngestErrorReturned(db) == db # "influxdb"

\* faulty variant of QueryErrorReturned: the TimescaleDB blocks record the sentinel too
QueryErrorReturnedNotTimescale(db) == db \notin {"influxdb", "timescaledb"}

\* a failed query call makes the procedure return the error
\* (the InfluxDB blocks append the sentinel and go on)
QueryErrorReturned(db) == db # "influxdb"

\* backend round trips of one query block (InfluxDB query 1 asks min, then max)
RoundTrips(db, q) == IF db = "influxdb" /\ q = 1 THEN 2 ELSE 1

\* handles closed by the procedure's defer statements when it returns
Deferred(db) ==
    IF db = "influxdb" THEN {"client", "out"}
    ELSE IF db = "clickhouse" THEN {"conn", "out"}
    ELSE {"out"}

\* faulty variant of AfterChunk: the break condition negated (if hasNext { break })
AfterChunkNegated(more) == IF more THEN "query" ELSE "load"

\* the loop's exit: currentChunk++; if !hasNext { break }
AfterChunk(more) == IF more THEN "load" ELSE "query"

\* faulty variant of AfterQuery: the last query block is missing
AfterQueryShort(q) == IF q < NQueries - 1 THEN "query" ELSE "create"

\* the block after query q: the next query block, or the artifact write after 20
AfterQuery(q) == IF q < NQueries THEN "query" ELSE "create"

\* faulty variant of AfterQueryError: the artifact is written with what was measured
AfterQueryErrorWrites(q) == "create"

\* a query block of the SQL procedures: if err != nil { return err }
AfterQueryError(q) == "return"

\* faulty variant of NextId: the blocks of queries 10 and 11 are written in swapped order
NextIdSwapped(q) ==
    IF q = 9 THEN 11 ELSE IF q = 11 THEN 10 ELSE IF q = 10 THEN 12 ELSE q + 1

\* the identifier of the block that follows the block of query q in the source
NextId(q) == q + 1

\* if err != nil { return err }
Failed(outcome) == outcome # "ok"

\* faulty variant of AfterSchema: the error of the schema statement is not checked
AfterSchemaUnchecked(outcome) == "load"

\* _, err = pool.Exec(CREATE TABLE ...); if err != nil { return err }
AfterSchema(outcome) == IF Failed(outcome) THEN "return" ELSE "load"

\* faulty variant of Appended: the new entry takes the place of the last one
AppendedOverLast(list, entry) ==
    IF list = <<>> THEN <<entry>> ELSE [list EXCEPT ![Len(list)] = entry]

\* results.Ingestion = append(results.Ingestion, ...) / results.Queries = append(...)
Appended(list, entry) == Append(list, entry)

EmptyResults == [DbType |-> "", Ingestion |-> <<>>, Queries |-> <<>>]

Sample(d, n) == [durationMs |-> d, nRecords |-> n]

QueryResult(q, d) == [queryId |-> q, durationMs |-> d]

Event(op, arg, ok, more, n) == [op |-> op, arg |-> arg, ok |-> ok, more |-> more, n |-> n]

File(state, doc) == [state |-> state, doc |-> doc]

\* faulty variant of Created: the path is opened for appending, nothing is truncated
CreatedAppending(file) == file

\* os.Create(outFile): the file exists and is empty, whatever was at the path
Created(file) == File("empty", EmptyResults)

\* Encode writes the document at the end of what the file holds
Encoded(file, doc) ==
    IF file.state = "empty" THEN File("written", doc) ELSE File("appended", doc)

\* faulty variant of ExitOf: an error of the artifact encoding is not raised
ExitOfIgnoringEncode(e) == IF e \in {"none", "encode"} THEN "ok" ELSE "panic"

\* main: if err := benchmarkX(...); err != nil { panic(err) }
ExitOf(e) == IF e = "none" THEN "ok" ELSE "panic"

\* history: the last reader call, one entry per ingested chunk, the values assigned
\* to middleTime, the bounds every dependent query was given, and whether the rows
\* of every answered query were read before its duration was taken
EmptyHist == [read |-> <<0, 0>>, chunks |-> <<>>, middles |-> <<>>,
              bounds |-> <<>>, rows |-> <<>>]

(* --------------------------- initial state ----------------------------- *)

Init ==
    /\ dbType \in TypeFlags
    /\ connStr \in ConnFlags
    /\ connStr = "ingest:::query" => dbType = "questdb"
    /\ outputFile \in OutFlags
    /\ pc = "main"
    /\ err = "none"
    /\ exit = "running"
    /\ currentChunk = 0
    /\ hasNext = FALSE
    /\ data = 0
    /\ nRecords = 0
    /\ results = EmptyResults
    /\ qid = 1
    /\ minTime = ZeroTime
    /\ maxTime = ZeroTime
    /\ middleTime = ZeroTime
    /\ now = 0
    /\ start = 0
    /\ open = {}
    /\ poolSize = 0
    /\ acquired = 0
    /\ tables = 0
    /\ firstIndex \in {0, 1}
    /\ nFiles \in 0..MaxChunks
    /\ stray \in 0..MaxStray
    /\ outFile \in {File("absent", EmptyResults), File("old", EmptyResults)}
    /\ faults = 0
    /\ log = <<>>
    /\ hist = EmptyHist

(* ------------------------------ main ----------------------------------- *)

\* faulty variant of Dispatch: the -o flag is not among the flags checked
DispatchWithoutOutCheck(conn, type, out) ==
    IF conn = "" \/ type = "" THEN "usage"
    ELSE IF type \in DbTypes THEN "run"
    ELSE "panic"

\* main: usage when a flag is empty, else the procedure of a known -type, else panic
Dispatch(conn, type, out) ==
    IF conn = "" \/ type = "" \/ out = "" THEN "usage"
    ELSE IF type \in DbTypes THEN "run"
    ELSE "panic"

\* main: flag check and dispatch on -type
Main ==
    /\ pc = "main"
    /\ LET d == Dispatch(connStr, dbType, outputFile) IN
       /\ pc' = IF d = "run" THEN "connect" ELSE "exited"
       /\ exit' = IF d = "run" THEN exit ELSE d
    /\ UNCHANGED <<connStr, outputFile, dbType, err, currentChunk, hasNext, data,
                   nRecords, results, qid, minTime, maxTime, middleTime, now, start,
                   open, poolSize, acquired, tables, firstIndex, nFiles, stray,
                   outFile, faults, log, hist>>

\* the procedure returned: deferred Close calls run, main panics on an error
Return ==
    /\ pc = "return"
    /\ open' = open \ Deferred(dbType)
    /\ exit' = ExitOf(err)
    /\ pc' = "exited"
    /\ UNCHANGED <<connStr, outputFile, dbType, err, currentChunk, hasNext, data,
                   nRecords, results, qid, minTime, maxTime, middleTime, now, start,
                   poolSize, acquired, tables, firstIndex, nFiles, stray,
                   outFile, faults, log, hist>>

(* ----------------------- connection and schema ------------------------- *)

\* handles held once the connection step ended with the given outcome
Opened(db, outcome) ==
    CASE db = "influxdb" -> {"client"}
      [] db = "clickhouse" -> {"conn"}
      [] db = "questdb" -> IF outcome = "format" \/ outcome = "sender" THEN {}
                           ELSE IF outcome = "pool" THEN {"sender"}
                           ELSE {"sender", "pool"}
      [] OTHER -> IF outcome = "ok" THEN {"pool"} ELSE {}

\* failures the connection step of a backend can return
ConnectFailures(db) ==
    CASE db = "influxdb" -> {}
      [] db = "clickhouse" -> {"ping"}
      [] db = "questdb" -> {"sender", "pool"}
      [] OTHER -> {"pool"}

\* strings.Split check (QuestDB); pgxpool.New / LineSenderFromConf /
\* clickhouse.OpenDB + Ping / NewClientWithOptions
Connect ==
    /\ pc = "connect"
    /\ IF dbType = "questdb" /\ ConnParts(connStr) # 2
       THEN /\ err' = "format"
            /\ pc' = "return"
            /\ UNCHANGED <<open, poolSize, faults>>
       ELSE \E outcome \in {"ok"} \cup ConnectFailures(dbType) :
            \E size \in IF outcome = "ok" /\ Pooled(dbType) THEN PoolSizes ELSE {0} :
                /\ Failed(outcome) => faults < MaxFaults
                /\ open' = Opened(dbType, outcome)
                /\ poolSize' = size
                /\ faults' = IF Failed(outcome) THEN faults + 1 ELSE faults
                /\ err' = IF Failed(outcome) THEN "connect" ELSE err
                /\ pc' = IF Failed(outcome) THEN "return"
                         ELSE IF HasSchemaStep(dbType) THEN "schema" ELSE "load"
    /\ UNCHANGED <<connStr, outputFile, dbType, exit, currentChunk, hasNext, data,
                   nRecords, results, qid, minTime, maxTime, middleTime, now, start,
                   acquired, tables, firstIndex, nFiles, stray, outFile, log, hist>>

\* pool.Exec / conn.Exec of the CREATE TABLE statement
Schema ==
    /\ pc = "schema"
    /\ \E outcome \in {"ok", "exists", "rejected"} :
        /\ (outcome = "exists") = (tables > 0 /\ ~IfNotExists(dbType))
        /\ outcome = "rejected" => faults < MaxFaults
        /\ tables' = IF outcome = "ok" /\ tables = 0 THEN 1 ELSE tables
        /\ faults' = IF outcome = "rejected" THEN faults + 1 ELSE faults
        /\ err' = IF Failed(outcome) THEN outcome ELSE err
        /\ pc' = AfterSchema(outcome)
        /\ log' = Append(log, Event("schema", tables, ~Failed(outcome), FALSE, 0))
    /\ UNCHANGED <<connStr, outputFile, dbType, exit, currentChunk, hasNext, data,
                   nRecords, results, qid, minTime, maxTime, middleTime, now, start,
                   open, poolSize, acquired, firstIndex, nFiles, stray, outFile, hist>>

(* --------------------------- ingestion loop ---------------------------- *)

\* hasNext, data, err := loadDataChunk(currentChunk); if err != nil { return err }
LoadChunk ==
    /\ pc = "load"
    /\ \E outcome \in {"ok", "open", "decode", "readdir"}, len \in ChunkLens :
        /\ ~ChunkFileExists(currentChunk) => outcome = "open"
        /\ (Failed(outcome) /\ ChunkFileExists(currentChunk)) => faults < MaxFaults
        /\ Failed(outcome) => len = 0
        /\ now' = now + Tick
        /\ faults' = IF Failed(outcome) /\ ChunkFileExists(currentChunk)
                     THEN faults + 1 ELSE faults
        /\ hasNext' = IF outcome = "ok"
                      THEN HasMore(currentChunk, Entries(nFiles, stray)) ELSE FALSE
        /\ data' = len
        /\ err' = IF Failed(outcome) THEN outcome ELSE err
        /\ pc' = IF Failed(outcome) THEN "return" ELSE "ingest"
        /\ log' = Append(log, Event("read", currentChunk, outcome = "ok", hasNext', len))
        /\ hist' = [hist EXCEPT !.read = <<now, now'>>]
    /\ UNCHANGED <<connStr, outputFile, dbType, exit, currentChunk, nRecords, results,
                   qid, minTime, maxTime, middleTime, start, open, poolSize, acquired,
                   tables, firstIndex, nFiles, stray, outFile>>

\* start := time.Now(); write every record; flush/commit/copy; append the sample;
\* currentChunk++; if !hasNext { break }
IngestChunk ==
    /\ pc = "ingest"
    /\ \E outcome \in {"ok", "rejected"} :
        /\ Failed(outcome) => faults < MaxFaults
        /\ faults' = IF Failed(outcome) THEN faults + 1 ELSE faults
        /\ start' = TimerStart(hist.read[1], hist.read[2])
        /\ now' = now + Tick
        /\ log' = Append(log, Event("ingest", currentChunk, outcome = "ok", hasNext, data))
        /\ IF Failed(outcome) /\ IngestErrorReturned(dbType)
           THEN /\ err' = "ingest"
                /\ pc' = "return"
                /\ UNCHANGED <<nRecords, results, currentChunk, hist>>
           ELSE /\ nRecords' = Cumulative(nRecords, data)
                /\ hist' = [hist EXCEPT !.chunks = Append(@,
                                [chunk |-> currentChunk, readBegan |-> hist.read[1],
                                 readReturned |-> hist.read[2], started |-> start',
                                 acked |-> now + Tick, stopped |-> now'])]
                /\ results' = [results EXCEPT !.Ingestion =
                                  Appended(@, Sample(now' - start', nRecords'))]
                /\ currentChunk' = NextChunk(currentChunk)
                /\ pc' = AfterChunk(hasNext)
                /\ err' = err
    /\ UNCHANGED <<connStr, outputFile, dbType, exit, hasNext, data, qid, minTime,
                   maxTime, middleTime, open, poolSize, acquired, tables, firstIndex,
                   nFiles, stray, outFile>>

(* ------------------------------ queries -------------------------------- *)

\* span (seconds) between the minimum and maximum timestamp that query 1 returns:
\* an even and an odd number of seconds
QuerySpans == {SpanSec, SpanSec + 1}

\* One query block: "// Query <qid>" up to the next block.  A block of an
\* unsupported identifier only appends the sentinel.  Any other block takes
\* start = time.Now(), calls the backend, and either returns the error, or appends
\* the sentinel (InfluxDB), or appends the elapsed time.  The block of query 1 is
\* followed by the assignment of middleTime.
RunQuery ==
    /\ pc = "query"
    /\ IF qid \in Unsupported(dbType)
       THEN /\ results' = [results EXCEPT !.Queries =
                                Appended(@, QueryResult(qid, Sentinel))]
            /\ qid' = NextId(qid)
            /\ pc' = AfterQuery(qid)
            /\ UNCHANGED <<err, minTime, maxTime, middleTime, now, start, acquired,
                           faults, log, hist>>
       ELSE /\ Pooled(dbType) => acquired < poolSize
            /\ \E outcome \in {"ok", "failed", "failedMax"}, span \in QuerySpans :
                /\ Failed(outcome) => faults < MaxFaults
                /\ outcome = "failedMax" => RoundTrips(dbType, qid) = 2
                /\ faults' = IF Failed(outcome) THEN faults + 1 ELSE faults
                /\ start' = now
                /\ now' = now + Tick * (IF outcome = "failed" THEN 1
                                        ELSE RoundTrips(dbType, qid))
                /\ log' = Append(log, Event("query", qid, outcome = "ok", FALSE, 0))
                /\ minTime' = IF qid = 1 /\ outcome # "failed" THEN T0 ELSE minTime
                /\ maxTime' = IF qid = 1 /\ outcome = "ok" THEN T0 + Unix(span) ELSE maxTime
                /\ hist' = [hist EXCEPT
                      !.bounds = IF qid \in Dependent
                                 THEN Append(@, [queryId |-> qid, min |-> minTime,
                                        middle |-> middleTime, max |-> maxTime,
                                        sent |-> Sent(dbType, middleTime),
                                        window |-> Window(qid, minTime, middleTime, maxTime)])
                                 ELSE @,
                      !.rows = IF outcome = "ok"
                               THEN Append(@, [queryId |-> qid,
                                               read |-> qid \notin UnreadRows(dbType)])
                               ELSE @,
                      !.middles = IF AssignsMiddle(qid)
                                     /\ ~(Failed(outcome) /\ QueryErrorReturned(dbType))
                                  THEN Append(@, Middle(minTime', maxTime'))
                                  ELSE @]
                /\ IF Failed(outcome) /\ QueryErrorReturned(dbType)
                   THEN /\ err' = "query"
                        /\ pc' = AfterQueryError(qid)
                        /\ UNCHANGED <<results, qid, middleTime, acquired>>
                   ELSE /\ results' = [results EXCEPT !.Queries =
                                Appended(@, QueryResult(qid,
                                    IF Failed(outcome) THEN Sentinel ELSE now' - start'))]
                        /\ middleTime' = IF AssignsMiddle(qid)
                                         THEN Middle(minTime', maxTime')
                                         ELSE middleTime
                        /\ acquired' = IF outcome = "ok" /\ qid \in UnreadRows(dbType)
                                       THEN acquired + 1 ELSE acquired
                        /\ qid' = NextId(qid)
                        /\ pc' = AfterQuery(qid)
                        /\ err' = err
    /\ UNCHANGED <<connStr, outputFile, dbType, exit, currentChunk, hasNext, data,
                   nRecords, open, poolSize, tables, firstIndex, nFiles, stray, outFile>>

(* --------------------------- result artifact --------------------------- *)

\* results.DbType = ...; out, err := os.Create(outFile); defer out.Close()
CreateOut ==
    /\ pc = "create"
    /\ \E outcome \in {"ok", "create"} :
        /\ Failed(outcome) => faults < MaxFaults
        /\ faults' = IF Failed(outcome) THEN faults + 1 ELSE faults
        /\ results' = [results EXCEPT !.DbType = dbType]
        /\ log' = Append(log, Event("create", IF outFile.state = "absent" THEN 0 ELSE 1,
                                     outcome = "ok", FALSE, 0))
        /\ outFile' = IF Failed(outcome) THEN outFile ELSE Created(outFile)
        /\ open' = IF Failed(outcome) THEN open ELSE open \cup {"out"}
        /\ err' = IF Failed(outcome) THEN outcome ELSE err
        /\ pc' = IF Failed(outcome) THEN "return" ELSE "encode"
    /\ UNCHANGED <<connStr, outputFile, dbType, exit, currentChunk, hasNext, data,
                   nRecords, qid, minTime, maxTime, middleTime, now, start, poolSize,
                   acquired, tables, firstIndex, nFiles, stray, hist>>

\* json.NewEncoder(out).Encode(results); return nil
EncodeOut ==
    /\ pc = "encode"
    /\ \E outcome \in {"ok", "encode"} :
        /\ Failed(outcome) => faults < MaxFaults
        /\ faults' = IF Failed(outcome) THEN faults + 1 ELSE faults
        /\ log' = Append(log, Event("encode", 0, outcome = "ok", FALSE, 0))
        /\ outFile' = IF Failed(outcome) THEN File("partial", EmptyResults)
                      ELSE Encoded(outFile, results)
        /\ err' = IF Failed(outcome) THEN outcome ELSE err
        /\ pc' = "return"
    /\ UNCHANGED <<connStr, outputFile, dbType, exit, currentChunk, hasNext, data,
                   nRecords, results, qid, minTime, maxTime, middleTime, now, start,
                   open, poolSize, acquired, tables, firstIndex, nFiles, stray, hist>>

(* ------------------------------ next run ------------------------------- *)

\* The binary is invoked again with the same flags and a new output path, against
\* the same backend or (reset) after the containers were torn down and recreated.
NewRun ==
    /\ pc = "exited"
    /\ \E reset \in BOOLEAN :
        tables' = IF reset THEN 0 ELSE tables
    /\ pc' = "main"
    /\ err' = "none"
    /\ exit' = "running"
    /\ currentChunk' = 0
    /\ hasNext' = FALSE
    /\ data' = 0
    /\ nRecords' = 0
    /\ results' = EmptyResults
    /\ qid' = 1
    /\ minTime' = ZeroTime
    /\ maxTime' = ZeroTime
    /\ middleTime' = ZeroTime
    /\ now' = 0
    /\ start' = 0
    /\ open' = {}
    /\ poolSize' = 0
    /\ acquired' = 0
    /\ outFile' \in {File("absent", EmptyResults), File("old", EmptyResults)}
    /\ faults' = 0
    /\ log' = <<>>
    /\ hist' = EmptyHist
    /\ UNCHANGED <<connStr, outputFile, dbType, firstIndex, nFiles, stray>>

Next ==
    \/ Main
    \/ Connect
    \/ Schema
    \/ LoadChunk
    \/ IngestChunk
    \/ RunQuery
    \/ CreateOut
    \/ EncodeOut
    \/ Return
    \/ NewRun

Spec == Init /\ [][Next]_vars

\* the steps of the process itself: a started binary goes on to its next statement
\* whenever that statement can be executed (a query blocked on the pool cannot be)
Step ==
    \/ Main
    \/ Connect
    \/ Schema
    \/ LoadChunk
    \/ IngestChunk
    \/ RunQuery
    \/ CreateOut
    \/ EncodeOut
    \/ Return

\* the run under the scheduling of a sequential process; nothing obliges anyone to
\* invoke the binary again
FairSpec == Spec /\ WF_vars(Step)

(* ------------------- derivation of the middle, alone -------------------- *)

\* instants query 1 may return as the minimum, and spans up to the maximum: every
\* span 0..MaxSpan (odd ones included) and the two largest values of a Duration
MiddleOrigins == {ZeroTime, 1, T0}

MiddleSpans == (0..MaxSpan) \cup {MaxDuration - 1, MaxDuration}

\* the state after query 1 of a run has stored a minimum and a maximum
MiddleInit ==
    /\ dbType = "postgres"
    /\ connStr = "host"
    /\ outputFile = "out.json"
    /\ pc = "given"
    /\ err = "none"
    /\ exit = "running"
    /\ currentChunk = 0
    /\ hasNext = FALSE
    /\ data = 0
    /\ nRecords = 0
    /\ results = EmptyResults
    /\ qid = 1
    /\ minTime \in MiddleOrigins
    /\ \E d \in MiddleSpans : maxTime = minTime + d
    /\ middleTime = ZeroTime
    /\ now = 0
    /\ start = 0
    /\ open = {}
    /\ poolSize = 0
    /\ acquired = 0
    /\ tables = 0
    /\ firstIndex = 0
    /\ nFiles = 0
    /\ stray = 0
    /\ outFile = File("absent", EmptyResults)
    /\ faults = 0
    /\ log = <<>>
    /\ hist = EmptyHist

\* middleTime = minTime.Add(maxTime.Sub(minTime) / 2)
DeriveMiddle ==
    /\ pc = "given"
    /\ middleTime' = Middle(minTime, maxTime)
    /\ hist' = [hist EXCEPT !.middles = Append(@, middleTime')]
    /\ pc' = "derived"
    /\ UNCHANGED <<connStr, outputFile, dbType, err, exit, currentChunk, hasNext, data,
                   nRecords, results, qid, minTime, maxTime, now, start, open, poolSize,
                   acquired, tables, firstIndex, nFiles, stray, outFile, faults, log>>

\* the same statement evaluated once more on the same minimum and maximum
DeriveMiddleAgain ==
    /\ pc = "derived"
    /\ middleTime' = Middle(minTime, maxTime)
    /\ hist' = [hist EXCEPT !.middles = Append(@, middleTime')]
    /\ pc' = "rederived"
    /\ UNCHANGED <<connStr, outputFile, dbType, err, exit, currentChunk, hasNext, data,
                   nRecords, results, qid, minTime, maxTime, now, start, open, poolSize,
                   acquired, tables, firstIndex, nFiles, stray, outFile, faults, log>>

MiddleNext ==
    \/ DeriveMiddle
    \/ DeriveMiddleAgain

MiddleSpec == MiddleInit /\ [][MiddleNext]_vars

(* ======================================================================= *)
(*                              Properties                                 *)
(* ======================================================================= *)

LogIdx == 1..Len(log)

Completed == outFile.state = "written"

RECURSIVE SumLens(_, _)
\* sum of the chunk lengths of the first k entries of a sequence of read events
SumLens(reads, k) == IF k = 0 THEN 0 ELSE SumLens(reads, k - 1) + reads[k].n

OkReads == SelectSeq(log, LAMBDA e : e.op = "read" /\ e.ok)

\* C1: in every completed run (artifact written) the query list of the artifact has
\* exactly 20 entries and the i-th entry carries identifier i, for every backend and
\* whichever entries are measured or carry the sentinel.
C1_TwentyIdsInOrder ==
    Completed =>
        /\ Len(outFile.doc.Queries) = 20
        /\ \A i \in 1..Len(outFile.doc.Queries) : outFile.doc.Queries[i].queryId = i

\* C1 witness: a completed InfluxDB run whose artifact holds a sentinel entry
C1_Witness ==
    /\ Completed
    /\ dbType = "influxdb"
    /\ \E i \in 1..Len(outFile.doc.Queries) : outFile.doc.Queries[i].durationMs = Sentinel

\* C2: the i-th ingestion sample carries the sum of the lengths of the chunks read so
\* far (chunks 0..i-1), not the length of its own chunk; hence the counts never
\* decrease and, once the loop has ended, the last one is the sum of all chunk lengths.
C2_CumulativeCount ==
    /\ Len(results.Ingestion) <= Len(OkReads)
    /\ \A i \in 1..Len(results.Ingestion) :
          results.Ingestion[i].nRecords = SumLens(OkReads, i)
    /\ \A i \in 2..Len(results.Ingestion) :
          results.Ingestion[i - 1].nRecords <= results.Ingestion[i].nRecords
    /\ pc \in {"query", "create", "encode"} =>
          /\ Len(results.Ingestion) = Len(OkReads)
          /\ results.Ingestion[Len(results.Ingestion)].nRecords
                = SumLens(OkReads, Len(OkReads))

\* C2 witness: chunks of 3 and 2 events were ingested and the samples read [3, 5]
C2_Witness ==
    /\ Len(OkReads) = 2
    /\ OkReads[1].n = 3
    /\ OkReads[2].n = 2
    /\ Len(results.Ingestion) = 2
    /\ results.Ingestion[1].nRecords = 3
    /\ results.Ingestion[2].nRecords = 5

\* C3: with exactly K >= 1 chunk files 0..K-1 and no other directory entry, every
\* successful reader call for an index below K-1 returns hasMore = TRUE, the call for
\* index K-1 returns hasMore = FALSE, and no reader call follows a call that returned
\* hasMore = FALSE (so FALSE is returned once).
C3_HasMoreUntilLast ==
    (firstIndex = 0 /\ stray = 0 /\ nFiles >= 1) =>
        \A i \in LogIdx :
            log[i].op = "read" =>
                /\ log[i].ok => (log[i].more = (log[i].arg < nFiles - 1))
                /\ ~log[i].more => \A j \in LogIdx : j > i => log[j].op # "read"

\* C3 witness: two chunk files, both read, the second call returned hasMore = FALSE
\* and the run went on to the queries
C3_Witness ==
    /\ firstIndex = 0 /\ stray = 0 /\ nFiles = 2
    /\ pc = "query"
    /\ \E i \in LogIdx : log[i].op = "read" /\ log[i].ok /\ log[i].arg = 1 /\ ~log[i].more
    /\ \E i \in LogIdx : log[i].op = "read" /\ log[i].ok /\ log[i].arg = 0 /\ log[i].more

\* C4: a completed PostgreSQL run has 20 query entries of which exactly those of
\* identifiers 8, 14, 17, 18, 19, 20 carry -1 and the other fourteen a duration >= 0;
\* and no PostgreSQL run returns a query error from one of these six identifiers.
C4_PostgresSentinels ==
    dbType = "postgres" =>
        /\ Completed =>
              /\ Len(outFile.doc.Queries) = 20
              /\ \A i \in 1..Len(outFile.doc.Queries) :
                    LET q == outFile.doc.Queries[i] IN
                    IF q.queryId \in {8, 14, 17, 18, 19, 20}
                    THEN q.durationMs = 0 - 1
                    ELSE q.durationMs >= 0
        /\ \A i \in 1..Len(results.Queries) :
              results.Queries[i].queryId \in {8, 14, 17, 18, 19, 20}
                  => results.Queries[i].durationMs = 0 - 1
        /\ \A i \in LogIdx :
              log[i].op = "query" => log[i].arg \notin {8, 14, 17, 18, 19, 20}

\* C4 witness: a completed PostgreSQL run
C4_Witness == dbType = "postgres" /\ Completed /\ Len(outFile.doc.Queries) = 20

ArtifactTouched == outFile.state \in {"empty", "partial", "written"}

\* C5: whenever the backend fails a write of a chunk, the procedure returns the
\* ingestion error, no sample is appended for that chunk, no query is issued and the
\* artifact is neither created nor written, in every backend.
C5_IngestFailureAborts ==
    \A i \in LogIdx :
        (log[i].op = "ingest" /\ ~log[i].ok) =>
            /\ err = "ingest"
            /\ Len(results.Ingestion) = log[i].arg
            /\ \A j \in LogIdx : log[j].op \notin {"query", "create", "encode"}
            /\ ~ArtifactTouched

\* C6: whenever a query call fails with a backend or connection error, the procedure
\* returns that error, no later query is issued, no entry is recorded for the failed
\* identifier and the artifact is neither created nor written, in every backend.
C6_QueryFailureAborts ==
    \A i \in LogIdx :
        (log[i].op = "query" /\ ~log[i].ok) =>
            /\ err = "query"
            /\ \A j \in LogIdx : j > i => log[j].op \notin {"query", "create", "encode"}
            /\ \A k \in 1..Len(results.Queries) : results.Queries[k].queryId # log[i].arg
            /\ ~ArtifactTouched

\* C7: whenever a reader call or an ingestion call fails during the ingestion loop,
\* the run ends with an error and os.Create is never reached.
C7_IngestingFailureNoArtifact ==
    \A i \in LogIdx :
        (log[i].op \in {"read", "ingest"} /\ ~log[i].ok) =>
            /\ err # "none"
            /\ \A j \in LogIdx : log[j].op \notin {"create", "encode"}
            /\ ~ArtifactTouched

\* C8: a schema step run against a backend whose table user_events already exists
\* does not fail because of that and leaves exactly one schema object, for each of
\* PostgreSQL, TimescaleDB, CrateDB and ClickHouse.
C8_SchemaIdempotent ==
    \A i \in LogIdx :
        (log[i].op = "schema" /\ log[i].arg >= 1) =>
            /\ err # "exists"
            /\ tables = 1

\* C9: no reader call and no ingestion call follows a query call, and the call that
\* precedes the first query call is the (returned) ingestion call of the chunk whose
\* read returned hasMore = FALSE; the states before the loop has ended hold no query
\* result, the states after it hold one sample per chunk read.
C9_IngestThenQuery ==
    /\ \A r \in {i \in LogIdx : log[i].op \in {"read", "ingest"}} :
          \A q \in {i \in LogIdx : log[i].op = "query"} : r < q
    /\ \A i \in LogIdx :
          log[i].op = "query" =>
              /\ i > 1
              /\ log[i - 1].op # "query" =>
                    (log[i - 1].op = "ingest" /\ ~log[i - 1].more)
    /\ pc \in {"query", "create", "encode"} =>
          (~hasNext /\ Len(results.Ingestion) = currentChunk)
    /\ pc \in {"load", "ingest"} => results.Queries = <<>>

\* C9 witness: two chunks were ingested, then all twenty query blocks ran
C9_Witness ==
    /\ pc = "create"
    /\ Len(results.Ingestion) = 2
    /\ Len(results.Queries) = 20
    /\ \E i \in LogIdx : log[i].op = "query" /\ log[i].arg = 20

\* C10: the query calls of a run carry strictly ascending identifiers (none is issued
\* twice), the recorded entries are those of identifiers 1, 2, ... in that order, and
\* when a query is issued every smaller identifier has been recorded already, while
\* a failed call is either recorded or is the last call of the run.
C10_AscendingOnce ==
    LET issued == SelectSeq(log, LAMBDA e : e.op = "query") IN
    /\ \A k \in 2..Len(issued) : issued[k - 1].arg < issued[k].arg
    /\ \A k \in 1..Len(results.Queries) : results.Queries[k].queryId = k
    /\ \A i \in LogIdx :
          log[i].op = "query" =>
              /\ Len(results.Queries) >= log[i].arg - 1
              /\ \/ Len(results.Queries) >= log[i].arg
                 \/ (err = "query" /\ i = Len(log))

\* C10 witness: a TimescaleDB run issued all twenty queries
C10_Witness ==
    /\ dbType = "timescaledb"
    /\ Len(results.Queries) = 20
    /\ Cardinality({i \in LogIdx : log[i].op = "query"}) = 20

Query1Ok == \E i \in LogIdx : log[i].op = "query" /\ log[i].arg = 1 /\ log[i].ok

C12_MiddleExact ==
    pc \in {"derived", "rederived"} =>
        LET d == maxTime - minTime IN
        /\ d >= 0
        /\ middleTime = minTime + (d \div 2)
        /\ 2 * (middleTime - minTime) \in {d - 1, d}
        /\ \A k \in 1..Len(hist.middles) : hist.middles[k] = minTime + (d \div 2)
        /\ Len(hist.middles) = IF pc = "derived" THEN 1 ELSE 2

\* C12 witness: an odd span (7) was halved to 3, twice
C12_Witness ==
    /\ pc = "rederived"
    /\ minTime = T0
    /\ maxTime = T0 + 7
    /\ hist.middles = <<T0 + 3, T0 + 3>>

C14_ReleasedOnEveryPath ==
    pc = "exited" => open = {}

\* C15: for every query that the backend answered, the rows of the answer were read
\* to the end before the elapsed time was taken and the entry appended.
C15_RowsReadBeforeDuration ==
    \A k \in 1..Len(hist.rows) : hist.rows[k].read

\* C16: for every ingestion sample, the timer was started at or after the instant the
\* reader call of that chunk returned (the time of reading is not in the sample) and
\* stopped at or after the instant the flush/commit/copy returned; the sample holds
\* stopped - started and there is one sample per chunk so timed, in every backend.
C16_TimerAroundWriteOnly ==
    /\ Len(hist.chunks) = Len(results.Ingestion)
    /\ \A i \in 1..Len(hist.chunks) :
          LET c == hist.chunks[i] IN
          /\ c.chunk = i - 1
          /\ c.readBegan < c.readReturned
          /\ c.readReturned <= c.started
          /\ c.started < c.acked
          /\ c.acked <= c.stopped
          /\ results.Ingestion[i].durationMs = c.stopped - c.started
          /\ results.Ingestion[i].durationMs <= c.stopped - c.readReturned
          /\ results.Ingestion[i].durationMs < c.stopped - c.readBegan

\* C16 witness: a QuestDB run timed two chunks
C16_Witness ==
    /\ dbType = "questdb"
    /\ Len(hist.chunks) = 2
    /\ Len(results.Ingestion) = 2
    /\ hist.chunks[2].started = hist.chunks[2].readReturned

\* C17: with the chunk files named from index 1 as the README instructs (K files,
\* no other entry) and no fault of the environment, a run that has ended has loaded
\* K chunks and recorded K samples, and ended without error.
C17_ReadmeNamesLoad ==
    (firstIndex = 1 /\ nFiles >= 1 /\ stray = 0 /\ faults = 0 /\ pc = "exited"
       /\ exit \in {"ok", "panic"} /\ dbType \in DbTypes
       /\ ~(dbType = "questdb" /\ ConnParts(connStr) # 2)
       /\ ~(\E i \in LogIdx : log[i].op = "schema" /\ ~log[i].ok)) =>
        /\ err = "none"
        /\ Len(results.Ingestion) = nFiles

CountOf(op) == Cardinality({i \in LogIdx : log[i].op = op})

\* C18: os.Create is called at most once in a run and only when twenty query results
\* have been appended; after it the file holds nothing of what was at the path; a
\* completed run has called os.Create once and Encode once, after every query, and
\* the file holds exactly the one result document.
C18_OneArtifact ==
    /\ CountOf("create") <= 1
    /\ CountOf("encode") <= 1
    /\ \A i \in LogIdx :
          log[i].op = "create" =>
              /\ Len(results.Queries) = 20
              /\ \A j \in LogIdx : log[j].op = "query" => j < i
              /\ log[i].ok => outFile.state \in {"empty", "partial", "written"}
    /\ \A i \in LogIdx :
          log[i].op = "encode" => (i > 1 /\ log[i - 1].op = "create" /\ log[i - 1].ok)
    /\ Completed =>
          /\ CountOf("create") = 1
          /\ CountOf("encode") = 1
          /\ outFile.doc = results
          /\ Len(outFile.doc.Queries) = 20

\* C18 witness: a completed run whose output path held a file before
C18_Witness ==
    /\ Completed
    /\ \E i \in LogIdx : log[i].op = "create" /\ log[i].arg = 1 /\ log[i].ok
    /\ outFile = File("written", results)

\* C19: when the process has ended after a procedure returned an error, it ended by
\* panic, whatever step the error came from; it ended normally after a procedure was
\* invoked only if the procedure returned no error.
C19_ErrorsPanic ==
    /\ (pc = "exited" /\ err # "none") => exit = "panic"
    /\ exit = "ok" => err = "none"
    /\ err \in {"none", "format", "connect", "exists", "rejected", "open", "decode",
                 "readdir", "ingest", "query", "create", "encode"}

\* C19 witness: the encoding of the artifact failed and the process ended by panic
C19_Witness ==
    /\ pc = "exited"
    /\ err = "encode"
    /\ exit = "panic"

\* C20: in a TimescaleDB, CrateDB, ClickHouse or QuestDB run no recorded query entry
\* carries the sentinel, and a completed run has issued each of the twenty
\* identifiers to the backend and holds twenty durations >= 0.
C20_NoSentinel ==
    dbType \in {"timescaledb", "cratedb", "clickhouse", "questdb"} =>
        /\ \A k \in 1..Len(results.Queries) : results.Queries[k].durationMs >= 0
        /\ Completed =>
              /\ \A q \in 1..20 :
                    \E i \in LogIdx : log[i].op = "query" /\ log[i].arg = q /\ log[i].ok
              /\ \A k \in 1..Len(outFile.doc.Queries) :
                    outFile.doc.Queries[k].durationMs # 0 - 1
              /\ Len(outFile.doc.Queries) = 20

\* C20 witness: a completed ClickHouse run
C20_Witness ==
    /\ dbType = "clickhouse"
    /\ Completed
    /\ Len(outFile.doc.Queries) = 20
    /\ outFile.doc.Queries[20].durationMs >= 0

\* C21: when the schema statement of a run was rejected by the backend, the procedure
\* returns that error: no chunk is read, nothing is written to the backend, no
\* ingestion sample and no query result is appended, and the artifact is neither
\* created nor written.
C21_SchemaRejectionAborts ==
    \A i \in LogIdx :
        (log[i].op = "schema" /\ ~log[i].ok) =>
            /\ err \in {"rejected", "exists"}
            /\ pc \in {"return", "exited"}
            /\ Len(log) = i
            /\ hist.chunks = <<>>
            /\ results.Ingestion = <<>>
            /\ results.Queries = <<>>
            /\ currentChunk = 0
            /\ ~ArtifactTouched

\* C21 witness: TimescaleDB rejected the schema statement and the process has ended
C21_Witness ==
    /\ dbType = "timescaledb"
    /\ pc = "exited"
    /\ err = "rejected"
    /\ exit = "panic"
    /\ \E i \in LogIdx : log[i].op = "schema" /\ ~log[i].ok

Reads == SelectSeq(log, LAMBDA e : e.op = "read")

\* C22: the k-th reader call of a run asks for index k-1 (ascending from 0, none
\* twice, none skipped); a reader call that succeeded is followed by exactly the
\* ingestion call of that chunk and an ingestion call is preceded by exactly the
\* successful reader call of its chunk; the i-th sample is that of chunk i-1; and a
\* completed run over K chunk files 0..K-1 (no other entry) holds K samples.
C22_SequentialChunks ==
    /\ \A k \in 1..Len(Reads) : Reads[k].arg = k - 1
    /\ \A i \in LogIdx :
          /\ (log[i].op = "read" /\ log[i].ok /\ i < Len(log)) =>
                (log[i + 1].op = "ingest" /\ log[i + 1].arg = log[i].arg)
          /\ log[i].op = "ingest" =>
                /\ i > 1
                /\ log[i - 1].op = "read"
                /\ log[i - 1].ok
                /\ log[i - 1].arg = log[i].arg
                /\ log[i - 1].n = log[i].n
    /\ Len(results.Ingestion) <= CountOf("ingest")
    /\ Len(results.Ingestion) = Len(hist.chunks)
    /\ \A i \in 1..Len(hist.chunks) : hist.chunks[i].chunk = i - 1
    /\ Len(results.Ingestion) = currentChunk
    /\ CountOf("ingest") - Len(results.Ingestion) \in {0, 1}
    /\ (Completed /\ firstIndex = 0 /\ stray = 0) =>
          /\ Len(outFile.doc.Ingestion) = nFiles
          /\ CountOf("read") = nFiles
          /\ CountOf("ingest") = nFiles

\* C22 witness: a completed run over two chunk files holds two samples
C22_Witness ==
    /\ Completed
    /\ firstIndex = 0
    /\ stray = 0
    /\ nFiles = 2
    /\ Len(outFile.doc.Ingestion) = 2
    /\ CountOf("read") = 2

\* C23: with the chunk files 0..K-1 (K >= 1) and at least one other entry in the
\* directory, every successful reader call up to index K-1 returns hasMore = TRUE,
\* the reader call for index K fails, and the run never reaches the queries nor
\* creates the artifact: once it has ended, it has ended by panic.
C23_StrayEntryAborts ==
    (firstIndex = 0 /\ nFiles >= 1 /\ stray >= 1) =>
        /\ \A i \in LogIdx :
              log[i].op = "read" =>
                  /\ log[i].arg <= nFiles
                  /\ (log[i].ok /\ log[i].arg <= nFiles - 1) => log[i].more
                  /\ log[i].arg = nFiles => ~log[i].ok
        /\ \A i \in LogIdx : log[i].op \notin {"query", "create", "encode"}
        /\ pc \notin {"query", "create", "encode"}
        /\ results.Queries = <<>>
        /\ ~ArtifactTouched
        /\ exit # "ok"
        /\ (pc = "exited" /\ dbType \in DbTypes /\ exit # "usage") =>
              (exit = "panic" /\ err # "none")

\* C23 witness: two chunk files and one other entry; both chunks were ingested, the
\* reader call for index 2 failed and the process ended by panic
C23_Witness ==
    /\ firstIndex = 0
    /\ nFiles = 2
    /\ stray = 1
    /\ Len(results.Ingestion) = 2
    /\ \E i \in LogIdx : log[i].op = "read" /\ log[i].arg = 1 /\ log[i].ok /\ log[i].more
    /\ \E i \in LogIdx : log[i].op = "read" /\ log[i].arg = 2 /\ ~log[i].ok
    /\ err = "open"
    /\ exit = "panic"

IsPrefix(s, t) == Len(s) <= Len(t) /\ SubSeq(t, 1, Len(s)) = s

QueryIssued == \E i \in LogIdx : log[i].op = "query"

\* C24: every step of a run leaves the entries already in the two lists as
\* they are and appends at most one entry, to one list; the ingestion list does not
\* change once a query has been issued; neither list changes from the creation of
\* the artifact on; the only other change of the record is the assignment of DbType,
\* made once, after the twentieth query result and before os.Create.
C24_ListsOnlyAppended ==
    [][pc # "exited" =>
          /\ IsPrefix(results.Ingestion, results'.Ingestion)
          /\ IsPrefix(results.Queries, results'.Queries)
          /\ Len(results'.Ingestion) + Len(results'.Queries)
                <= Len(results.Ingestion) + Len(results.Queries) + 1
          /\ QueryIssued => results'.Ingestion = results.Ingestion
          /\ results.Queries # <<>> => results'.Ingestion = results.Ingestion
          /\ pc \in {"create", "encode", "return"} =>
                (results'.Ingestion = results.Ingestion
                   /\ results'.Queries = results.Queries)
          /\ pc \in {"encode", "return"} => results' = results
          /\ results'.DbType # results.DbType =>
                (pc = "create" /\ results.DbType = "" /\ Len(results.Queries) = 20)]_vars

\* C24 witness: a run appended two samples and twenty query results, labelled the
\* record and encoded it
C24_Witness ==
    /\ Completed
    /\ Len(results.Ingestion) = 2
    /\ Len(results.Queries) = 20
    /\ results.DbType = dbType
    /\ outFile.doc = results

\* C25: the middle bound that a dependent query sends to the backend is the stored
\* middle, min + (max - min)/2, whatever the number of seconds between min and max,
\* in every backend.
C25_SentMiddleIsStored ==
    \A k \in 1..Len(hist.bounds) :
        LET b == hist.bounds[k] IN
        /\ b.middle = b.min + ((b.max - b.min) \div 2)
        /\ b.sent = b.middle

\* C26: whenever a dependent query has been issued, query 1 of the run was answered
\* and the query read the min and max that query 1 returned and the middle derived
\* from them; none was issued with the unset zero value as a bound.
C26_BoundsFromQuery1 ==
    \A k \in 1..Len(hist.bounds) :
        LET b == hist.bounds[k] IN
        /\ Query1Ok
        /\ b.min = T0
        /\ b.max > b.min
        /\ b.max # ZeroTime
        /\ results.Queries[1].durationMs # 0 - 1

\* C27: a run started with valid flags over chunk files 0..K-1 (K >= 1, no other
\* entry) eventually has written its artifact, unless the environment failed one of
\* its requests or the procedure returned an error.
C27_EventuallyDone ==
    [](( /\ pc = "main"
         /\ dbType \in DbTypes
         /\ connStr # ""
         /\ outputFile # ""
         /\ firstIndex = 0
         /\ nFiles >= 1
         /\ stray = 0 )
       => <>(Completed \/ faults > 0 \/ err # "none"))

\* C28: no step of a run changes the file at the output path except os.Create and
\* Encode, and os.Create is reached only by a run that has appended twenty query
\* results and met no fatal error: a run that returns an error earlier leaves the
\* file (or its absence) as it found it.
C28_AbortKeepsFile ==
    [][(pc # "exited" /\ outFile' # outFile) =>
          /\ pc \in {"create", "encode"}
          /\ Len(results.Queries) = 20
          /\ err = "none"
          /\ pc = "create" => outFile.state \in {"absent", "old"}]_vars

\* C28 witness: a run over an existing output file ended on a query error and the
\* file is as it was
C28_Witness ==
    /\ pc = "exited"
    /\ err = "query"
    /\ exit = "panic"
    /\ outFile = File("old", EmptyResults)

InProcedure ==
    pc \in {"connect", "schema", "load", "ingest", "query", "create", "encode", "return"}

ValidFlags ==
    /\ connStr # ""
    /\ outputFile # ""
    /\ dbType \in {"postgres", "timescaledb", "questdb", "cratedb", "clickhouse",
                    "influxdb"}

\* C29: the process is in, or has returned from, a backend procedure exactly when the
\* three flags are non-empty and -type is one of the six names; otherwise nothing
\* was opened, no call was made to the backend, the dataset or the output path, and
\* the process ends by returning after the usage text (a flag empty) or by panic
\* (unknown type).
C29_DispatchIffValid ==
    /\ InProcedure => ValidFlags
    /\ (ValidFlags /\ pc = "exited") =>
          \/ exit = "ok" /\ err = "none"
          \/ exit = "panic" /\ err # "none"
    /\ ~ValidFlags =>
          /\ pc \in {"main", "exited"}
          /\ open = {}
          /\ poolSize = 0
          /\ log = <<>>
          /\ hist = EmptyHist
          /\ results = EmptyResults
          /\ err = "none"
          /\ outFile.state \in {"absent", "old"}
          /\ pc = "exited" =>
                exit = IF connStr = "" \/ dbType = "" \/ outputFile = ""
                       THEN "usage" ELSE "panic"

\* C29 witness: all flags given, -type unknown: the process ended by panic with no
\* backend contacted
C29_Witness ==
    /\ connStr = "host"
    /\ outputFile = "out.json"
    /\ dbType = "mysql"
    /\ pc = "exited"
    /\ exit = "panic"
    /\ log = <<>>
    /\ open = {}

\* C30: the first call of every ingestion loop is the reader call for index 0; a
\* completed run holds at least one sample; and with no chunk file in the directory
\* that call fails, so that no chunk is ingested, no query is issued, the artifact is
\* not created and the run ends on the read error.
C30_ChunkZeroFirst ==
    /\ Reads # <<>> => Reads[1].arg = 0
    /\ (\E i \in LogIdx : log[i].op \in {"ingest", "query", "create", "encode"}) =>
          (Reads # <<>> /\ Reads[1].ok)
    /\ Completed => Len(outFile.doc.Ingestion) >= 1
    /\ pc \in {"query", "create", "encode"} => Len(results.Ingestion) >= 1
    /\ nFiles = 0 =>
          /\ \A i \in LogIdx :
                /\ log[i].op \notin {"ingest", "query", "create", "encode"}
                /\ log[i].op = "read" => (log[i].arg = 0 /\ ~log[i].ok)
          /\ results.Ingestion = <<>>
          /\ pc \notin {"ingest", "query", "create", "encode"}
          /\ ~ArtifactTouched
          /\ exit # "ok"
          /\ Reads # <<>> => (err = "open" /\ pc \in {"return", "exited"})

\* C30 witness: an empty directory; the reader call for index 0 failed and the
\* process ended by panic
C30_Witness ==
    /\ nFiles = 0
    /\ stray = 0
    /\ Len(Reads) = 1
    /\ ~Reads[1].ok
    /\ err = "open"
    /\ pc = "exited"
    /\ exit = "panic"

====
